---- MODULE Spec2Model ----
(***************************************************************************)
(* Expense Tracker backend: the Expense schema (models/Expense), the       *)
(* expense controller (controllers/expenseController.js) and the error     *)
(* middleware of server.js, as a state machine over the expense            *)
(* collection.  One action per HTTP handler; each action is the whole      *)
(* handler, from the request to the response it sends.  The statistics    *)
(* handler is the exception: its three awaited aggregations are three      *)
(* steps, so that other requests interleave with them.  The loading flag   *)
(* of the browser's ExpenseProvider (context/ExpenseContext.jsx) is        *)
(* modelled by the calls in flight and their completions.                  *)
(*                                                                         *)
(* Text values are abstracted to [pad, len]: `pad` is the number of        *)
(* surrounding whitespace characters, `len` the number of characters that  *)
(* remain after trimming.  The length of the raw text is pad + len.        *)
(* An optional value is a sequence: << >> when the key is missing from     *)
(* the JSON body (or the path is unset in the document), <<v>> otherwise.  *)
(***************************************************************************)
EXTENDS Integers, Sequences, FiniteSets, TLC

VARIABLES
    store,    \* the expenses collection: ObjectId -> document
    now,      \* the server clock, Date.now()
    nextId,   \* the next ObjectId the driver generates
    last,     \* the last request handled and the response it got
    hist,     \* history: ids ever created / updated / deleted, draft of each stored id
    stats,    \* the statistics request in progress: its position and what it has read
    nodeEnv,  \* process.env.NODE_ENV
    client,   \* the ExpenseProvider of the browser: loading flag, calls in flight
    server    \* the server process: database connection, listening, exit code,
              \* and the last request the router dispatched

vars == <<store, now, nextId, last, hist, stats, nodeEnv, client, server>>

(* ------------------------------ bounds --------------------------------- *)

\* number of ObjectIds the driver hands out in a run
MaxIds == 2
\* last reading of the server clock (Date.now(), milliseconds) in a run
MaxTime == 1
\* number of expenses created in a run of the validation specification
MaxDrafts == 1

(* ------------------------- schema constants ---------------------------- *)

TitleMaxLen == 100
DescriptionMaxLen == 500
AmountMin == 0

Categories ==
    {"Food", "Transportation", "Entertainment", "Shopping", "Utilities", "Housing",
     "Healthcare", "Personal", "Education", "Gifts", "Travel", "Other"}

CategoryDefault == "Other"

MsgTitleRequired == "Please add a title"
MsgTitleMaxLen == "Title cannot be more than 100 characters"
MsgAmountRequired == "Please add an amount"
MsgAmountMin == "Amount must be a positive number"
MsgCategoryEnum == "Validator failed for path category: not a valid enum value"
MsgDescriptionMaxLen == "Description cannot be more than 500 characters"
MsgNotFound == "Expense not found"
MsgCastObjectId == "Cast to ObjectId failed"

(* --------------------------- value helpers ----------------------------- *)

Str(pad, len) == [pad |-> pad, len |-> len]

\* String.prototype.trim, the setter the schema option trim: true installs
Trim(s) == [pad |-> 0, len |-> s.len]

RawLength(s) == s.pad + s.len

Absent == << >>
Some(v) == <<v>>
Present(o) == o # << >>
Val(o) == o[1]
Opt(S) == {Absent} \cup {Some(v) : v \in S}

(* ------------------------- request inputs ------------------------------ *)

Body(title, amount, category, date, description) ==
    [title |-> title, amount |-> amount, category |-> category, date |-> date,
     description |-> description]

NoBody == Body(Absent, Absent, Absent, Absent, Absent)

TitleIn == {Str(1, 0), Str(1, TitleMaxLen), Str(0, TitleMaxLen + 1)}
AmountIn == {AmountMin - 1, AmountMin, AmountMin + 7}
CategoryIn == {"Food", "Bogus"}
DateIn == {1}
DescriptionIn == {Str(1, DescriptionMaxLen), Str(0, DescriptionMaxLen + 1)}

\* req.body of POST and PUT: any subset of the five paths a draft may name
AllBodies ==
    [title : Opt(TitleIn), amount : Opt(AmountIn), category : Opt(CategoryIn),
     date : Opt(DateIn), description : Opt(DescriptionIn)]

Fields == {"title", "amount", "category", "date", "description"}

Differing(a, b) == {f \in Fields : a[f] # b[f]}

\* a draft naming every path, each value at the edge of what the schema accepts
FullDraft ==
    Body(Some(Str(1, TitleMaxLen)), Some(AmountMin + 7), Some("Food"), Some(1),
         Some(Str(1, DescriptionMaxLen)))

\* a draft violating every constraint of the schema at once
AllInvalid ==
    Body(Some(Str(1, 0)), Some(AmountMin - 1), Some("Bogus"), Absent,
         Some(Str(0, DescriptionMaxLen + 1)))

\* bodies of the validation specification: every value of every path, alone
\* and within an otherwise complete draft, and the draft violating everything
ValidationBodies ==
    {b \in AllBodies : \/ Cardinality(Differing(b, NoBody)) <= 1
                       \/ Cardinality(Differing(b, FullDraft)) <= 1}
        \cup {AllInvalid}

\* bodies of the lifecycle specification
LifecycleBodies ==
    {Body(Some(Str(1, 1)), Some(AmountMin + 7), Absent, Absent, Absent),
     Body(Absent, Some(AmountMin), Absent, Absent, Absent),
     NoBody,
     Body(Absent, Some(AmountMin - 1), Absent, Absent, Absent),
     Body(Some(Str(1, 0)), Absent, Absent, Absent, Absent)}

\* req.params.id: a 24-hex-digit ObjectId (wf) or any other text
WellFormedIds == {[wf |-> TRUE, n |-> i] : i \in 1..(MaxIds + 1)}
MalformedId == [wf |-> FALSE, n |-> 0]
ReqIds == WellFormedIds \cup {MalformedId}

\* the ids a run of the validation specification asks for
ValidationIds == {id \in ReqIds : id.n <= MaxDrafts + 1}

NoId == [wf |-> FALSE, n |-> -1]

(* ------------------------------ schema --------------------------------- *)

\* setters (trim: true on title and description) applied when a value is cast
ApplySetters(body) ==
    [body EXCEPT !.title = IF Present(@) THEN Some(Trim(Val(@))) ELSE @,
                 !.description = IF Present(@) THEN Some(Trim(Val(@))) ELSE @]

\* faulty variant: a missing category defaults to the first of the enumeration
ApplyDefaultsFirstCategory(body, t) ==
    [body EXCEPT !.category = IF Present(@) THEN @ ELSE Some("Food"),
                 !.date = IF Present(@) THEN @ ELSE Some(t)]

\* defaults of the schema, applied to a new document's missing paths
ApplyDefaults(body, t) ==
    [body EXCEPT !.category = IF Present(@) THEN @ ELSE Some(CategoryDefault),
                 !.date = IF Present(@) THEN @ ELSE Some(t)]

\* faulty variant: the maxlength validator of title is missing
TitleMessagesNoMaxLen(v, isNew) ==
    IF ~Present(v) THEN (IF isNew THEN {MsgTitleRequired} ELSE {})
    ELSE IF Val(v).len = 0 /\ Val(v).pad = 0 THEN {MsgTitleRequired}
    ELSE {}

TitleMessages(v, isNew) ==
    IF ~Present(v) THEN (IF isNew THEN {MsgTitleRequired} ELSE {})
    ELSE IF Val(v).len = 0 /\ Val(v).pad = 0 THEN {MsgTitleRequired}
    ELSE IF RawLength(Val(v)) > TitleMaxLen THEN {MsgTitleMaxLen}
    ELSE {}

\* faulty variant: the min validator of amount is missing
AmountMessagesNoMin(v, isNew) ==
    IF ~Present(v) THEN (IF isNew THEN {MsgAmountRequired} ELSE {}) ELSE {}

AmountMessages(v, isNew) ==
    IF ~Present(v) THEN (IF isNew THEN {MsgAmountRequired} ELSE {})
    ELSE IF Val(v) < AmountMin THEN {MsgAmountMin}
    ELSE {}

CategoryMessages(v) ==
    IF Present(v) /\ Val(v) \notin Categories THEN {MsgCategoryEnum} ELSE {}

DescriptionMessages(v) ==
    IF Present(v) /\ RawLength(Val(v)) > DescriptionMaxLen
    THEN {MsgDescriptionMaxLen} ELSE {}

\* faulty variant: the update runs without runValidators
ValidationMessagesNewOnly(cast, isNew) ==
    IF isNew
    THEN TitleMessages(cast.title, isNew) \cup AmountMessages(cast.amount, isNew)
            \cup CategoryMessages(cast.category) \cup DescriptionMessages(cast.description)
    ELSE {}

\* the validators of the schema run on the cast values: on every path of a
\* new document (isNew), on the paths named in the update otherwise
ValidationMessages(cast, isNew) ==
    TitleMessages(cast.title, isNew) \cup AmountMessages(cast.amount, isNew)
        \cup CategoryMessages(cast.category) \cup DescriptionMessages(cast.description)

\* faulty variant: a new document takes the clock for its date whatever the draft says
NewDocumentDateNow(id, cast, t) ==
    [_id |-> id, title |-> Val(cast.title), amount |-> Val(cast.amount),
     category |-> Val(cast.category), date |-> t,
     description |-> cast.description, createdAt |-> t, updatedAt |-> t]

\* the document of a new expense; timestamps: true sets createdAt = updatedAt
NewDocument(id, cast, t) ==
    [_id |-> id, title |-> Val(cast.title), amount |-> Val(cast.amount),
     category |-> Val(cast.category), date |-> Val(cast.date),
     description |-> cast.description, createdAt |-> t, updatedAt |-> t]

\* faulty variant: an update that names no amount resets it
ApplyUpdateResetsAmount(doc, cast, t) ==
    [doc EXCEPT !.title = IF Present(cast.title) THEN Val(cast.title) ELSE @,
                !.amount = IF Present(cast.amount) THEN Val(cast.amount) ELSE AmountMin,
                !.category = IF Present(cast.category) THEN Val(cast.category) ELSE @,
                !.date = IF Present(cast.date) THEN Val(cast.date) ELSE @,
                !.description = IF Present(cast.description) THEN cast.description ELSE @,
                !.updatedAt = t]

\* faulty variant: an update refreshes createdAt instead of updatedAt
ApplyUpdateRefreshesCreatedAt(doc, cast, t) ==
    [doc EXCEPT !.title = IF Present(cast.title) THEN Val(cast.title) ELSE @,
                !.amount = IF Present(cast.amount) THEN Val(cast.amount) ELSE @,
                !.category = IF Present(cast.category) THEN Val(cast.category) ELSE @,
                !.date = IF Present(cast.date) THEN Val(cast.date) ELSE @,
                !.description = IF Present(cast.description) THEN cast.description ELSE @,
                !.createdAt = t]

\* $set of the paths named in the update; timestamps: true adds updatedAt
ApplyUpdate(doc, cast, t) ==
    [doc EXCEPT !.title = IF Present(cast.title) THEN Val(cast.title) ELSE @,
                !.amount = IF Present(cast.amount) THEN Val(cast.amount) ELSE @,
                !.category = IF Present(cast.category) THEN Val(cast.category) ELSE @,
                !.date = IF Present(cast.date) THEN Val(cast.date) ELSE @,
                !.description = IF Present(cast.description) THEN cast.description ELSE @,
                !.updatedAt = t]

(* ----------------------------- responses ------------------------------- *)

Response(op, id, body, status, error, messages, data) ==
    [op |-> op, id |-> id, body |-> body, status |-> status,
     success |-> (status \in {200, 201}), error |-> error, messages |-> messages,
     data |-> data, stack |-> Absent]

MsgServerError == "Server Error"
Null == "null"
StackTrace == "stack trace"

\* the Error a handler hands to next(): the errors of Mongoose and of the
\* driver have a message (possibly empty) and a stack, and no statusCode
Err(message) == [message |-> message, statusCode |-> Absent, stack |-> StackTrace]

\* faulty variant: the stack is sent in every environment
ErrorMiddlewareSendsStack(op, id, body, message) ==
    [Response(op, id, body, 500, message, {}, Absent)
        EXCEPT !.success = FALSE, !.stack = Some(Err(message).stack)]

\* server.js error middleware: status err.statusCode || 500, success false,
\* error: err.message || 'Server Error', stack: null in production
ErrorMiddleware(op, id, body, message) ==
    LET err == Err(message)
        statusCode == IF Present(err.statusCode) THEN Val(err.statusCode) ELSE 500
    IN [Response(op, id, body, statusCode,
                 IF err.message # "" THEN err.message ELSE MsgServerError, {}, Absent)
           EXCEPT !.success = FALSE,
                  !.stack = Some(IF nodeEnv = "production" THEN Null ELSE err.stack)]

NotFound(op, id, body) == Response(op, id, body, 404, MsgNotFound, {}, Absent)

Stored(id) == id.wf /\ id.n \in DOMAIN store

(* ------------------------------ handlers ------------------------------- *)

Put(f, k, v) == [i \in DOMAIN f \cup {k} |-> IF i = k THEN v ELSE f[i]]
Remove(f, k) == [i \in DOMAIN f \ {k} |-> f[i]]

\* number of calls of one operation of the ExpenseProvider that are in flight
\* at the same time
MaxOutstanding == 2

\* the operations of the ExpenseProvider; all but getExpenseById set the
\* loading flag when they are called
LoadingOps ==
    {"getExpenses", "getExpenseStats", "addExpense", "updateExpense", "deleteExpense"}
ClientOps == LoadingOps \cup {"getExpenseById"}

\* the ExpenseProvider before its first effect: useState(true) for loading
\* the end of a call of the provider: its promise resolves, or rejects when
\* the catch block rethrows
Outcome(n, rejected) == [n |-> n, rejected |-> rejected]
NoOutcome == Outcome(0, FALSE)

\* the value of the amount field: the empty text, the text of a number, a
\* text that is no number, or the number EditExpense takes from the expense
\* it has fetched
AmountField(kind, value) == [kind |-> kind, value |-> value]

\* formData of ExpenseForm and EditExpense
FormData(title, amount, category, date, description) ==
    [title |-> title, amount |-> amount, category |-> category, date |-> date,
     description |-> description]

\* ExpenseForm before any input: initialData and no errors
NoForm ==
    [data |-> FormData([pad |-> 0, len |-> 0], AmountField("empty", 0), "Other",
                       [kind |-> "date", y |-> 0, m |-> 1, d |-> 1], [pad |-> 0, len |-> 0]),
     errors |-> {}]

\* useState of the statistics: {total: 0, byCategory: [], byMonth: []}
NoStatsData == [total |-> 0, byCategory |-> << >>, byMonth |-> << >>]

\* the ExpenseProvider before its first effect: useState([]) for expenses,
\* useState(true) for loading; inflight holds the axios requests not yet
\* processed, issued numbers them, calls counts the calls of the components,
\* settled tells how the promise of the call processed last ended; statsOf
\* (the ids of the expenses the statistics shown were computed from) and
\* refetched (the ids whose delete on the Dashboard and the statistics request
\* after it both succeeded) record what happened and steer nothing;
\* currentPage is the state of the ExpenseList the Dashboard shows:
\* useState(1); form is the state of the form last submitted
ClientInit ==
    [loading |-> TRUE, mounted |-> FALSE, outstanding |-> [op \in ClientOps |-> 0],
     expenses |-> << >>, statsData |-> NoStatsData, inflight |-> {},
     issued |-> 0, calls |-> 0, settled |-> NoOutcome,
     statsOf |-> {}, refetched |-> {}, currentPage |-> 1, form |-> NoForm]

\* no request dispatched yet
NoRequest == [method |-> "", path |-> "", id |-> NoId, handler |-> ""]

\* the server process once mongoose.connect has resolved and app.listen has
\* been called
ServerUp == [db |-> "connected", listening |-> TRUE, exit |-> Absent, req |-> NoRequest]

\* no statistics request in progress
NoStats ==
    [pc |-> "idle", byCategory |-> << >>, byMonth |-> << >>,
     quiet |-> TRUE, listed |-> FALSE]

Init ==
    /\ store = [i \in {} |-> 0]
    /\ now = 0
    /\ nextId = 1
    /\ last = Response("none", NoId, NoBody, 0, "", {}, Absent)
    /\ hist = [created |-> {}, updated |-> {}, deleted |-> {}, draft |-> [i \in {} |-> 0]]
    /\ stats = NoStats
    /\ nodeEnv = "development"
    /\ client = ClientInit
    /\ server = ServerUp

\* a step of the other handlers leaves the statistics request, the
\* environment, the client and the server process alone
OtherUnchanged == UNCHANGED <<stats, nodeEnv, client, server>>

\* the validation of a new document fails for this draft
Rejects(body) == ValidationMessages(ApplyDefaults(ApplySetters(body), now), TRUE) # {}

\* faulty variant: the id of a new expense is the number of stored expenses plus one
createExpenseCountsIds(body) ==
    LET cast == ApplyDefaults(ApplySetters(body), now)
        msgs == ValidationMessages(cast, TRUE)
    IN IF msgs # {}
       THEN /\ last' = Response("create", NoId, body, 400, "", msgs, Absent)
            /\ UNCHANGED <<store, now, nextId, hist>>
       ELSE /\ nextId <= MaxIds
            /\ LET doc == NewDocument(Cardinality(DOMAIN store) + 1, cast, now)
               IN /\ store' = Put(store, doc._id, doc)
                  /\ last' = Response("create", NoId, body, 201, "", {}, Some(doc))
                  /\ hist' = [hist EXCEPT !.created = @ \cup {doc._id},
                                          !.draft = Put(@, doc._id, body)]
            /\ nextId' = nextId + 1
            /\ UNCHANGED now

\* POST /api/expenses
createExpense(body) ==
    LET cast == ApplyDefaults(ApplySetters(body), now)
        msgs == ValidationMessages(cast, TRUE)
    IN IF msgs # {}
       THEN /\ last' = Response("create", NoId, body, 400, "", msgs, Absent)
            /\ UNCHANGED <<store, now, nextId, hist>>
       ELSE /\ nextId <= MaxIds
            /\ LET doc == NewDocument(nextId, cast, now)
               IN /\ store' = Put(store, doc._id, doc)
                  /\ last' = Response("create", NoId, body, 201, "", {}, Some(doc))
                  /\ hist' = [hist EXCEPT !.created = @ \cup {doc._id},
                                          !.draft = Put(@, doc._id, body)]
            /\ nextId' = nextId + 1
            /\ UNCHANGED now

\* GET /api/expenses/:id
getExpense(id) ==
    /\ last' = IF ~id.wf THEN ErrorMiddleware("get", id, NoBody, MsgCastObjectId)
               ELSE IF ~Stored(id) THEN NotFound("get", id, NoBody)
               ELSE Response("get", id, NoBody, 200, "", {}, Some(store[id.n]))
    /\ UNCHANGED <<store, now, nextId, hist>>

\* PUT /api/expenses/:id
updateExpense(id, body) ==
    LET cast == ApplySetters(body)
        msgs == ValidationMessages(cast, FALSE)
    IN IF ~id.wf
       THEN /\ last' = ErrorMiddleware("update", id, body, MsgCastObjectId)
            /\ UNCHANGED <<store, now, nextId, hist>>
       ELSE IF msgs # {}
       THEN /\ last' = Response("update", id, body, 400, "", msgs, Absent)
            /\ UNCHANGED <<store, now, nextId, hist>>
       ELSE IF ~Stored(id)
       THEN /\ last' = NotFound("update", id, body)
            /\ UNCHANGED <<store, now, nextId, hist>>
       ELSE LET doc == ApplyUpdate(store[id.n], cast, now)
            IN /\ store' = [store EXCEPT ![id.n] = doc]
               /\ last' = Response("update", id, body, 200, "", {}, Some(doc))
               /\ hist' = [hist EXCEPT !.updated = @ \cup {id.n}]
               /\ UNCHANGED <<now, nextId>>

\* faulty variant: the handler answers 200 without looking at what the store found
deleteExpenseNoCheck(id) ==
    IF ~id.wf
    THEN /\ last' = ErrorMiddleware("delete", id, NoBody, MsgCastObjectId)
         /\ UNCHANGED <<store, now, nextId, hist>>
    ELSE /\ store' = Remove(store, id.n)
         /\ last' = Response("delete", id, NoBody, 200, "", {}, Absent)
         /\ hist' = IF Stored(id)
                    THEN [hist EXCEPT !.deleted = @ \cup {id.n},
                                      !.updated = @ \ {id.n},
                                      !.draft = Remove(@, id.n)]
                    ELSE hist
         /\ UNCHANGED <<now, nextId>>

\* faulty variant: the delete answers 200 and leaves the document in the collection
deleteExpenseKeepsDocument(id) ==
    IF ~id.wf
    THEN /\ last' = ErrorMiddleware("delete", id, NoBody, MsgCastObjectId)
         /\ UNCHANGED <<store, now, nextId, hist>>
    ELSE IF ~Stored(id)
    THEN /\ last' = NotFound("delete", id, NoBody)
         /\ UNCHANGED <<store, now, nextId, hist>>
    ELSE /\ last' = Response("delete", id, NoBody, 200, "", {}, Absent)
         /\ hist' = [hist EXCEPT !.deleted = @ \cup {id.n}]
         /\ UNCHANGED <<store, now, nextId>>

\* DELETE /api/expenses/:id
deleteExpense(id) ==
    IF ~id.wf
    THEN /\ last' = ErrorMiddleware("delete", id, NoBody, MsgCastObjectId)
         /\ UNCHANGED <<store, now, nextId, hist>>
    ELSE IF ~Stored(id)
    THEN /\ last' = NotFound("delete", id, NoBody)
         /\ UNCHANGED <<store, now, nextId, hist>>
    ELSE /\ store' = Remove(store, id.n)
         /\ last' = Response("delete", id, NoBody, 200, "", {}, Absent)
         /\ hist' = [hist EXCEPT !.deleted = @ \cup {id.n},
                                 !.updated = @ \ {id.n},
                                 !.draft = Remove(@, id.n)]
         /\ UNCHANGED <<now, nextId>>

\* the server clock advances between requests
Tick ==
    /\ now < MaxTime
    /\ now' = now + 1
    /\ last' = Response("none", NoId, NoBody, 0, "", {}, Absent)
    /\ UNCHANGED <<store, nextId, hist>>

\* the lifecycle specification: requests over a few bodies, as time passes
Next ==
    \/ \E body \in LifecycleBodies : createExpense(body) /\ OtherUnchanged
    \/ \E id \in ReqIds : getExpense(id) /\ OtherUnchanged
    \/ \E id \in ReqIds, body \in LifecycleBodies :
          updateExpense(id, body) /\ OtherUnchanged
    \/ \E id \in ReqIds : deleteExpense(id) /\ OtherUnchanged
    \/ Tick /\ OtherUnchanged

Spec == Init /\ [][Next]_vars

\* the validation specification: requests over every kind of body
NextValidation ==
    \/ \E body \in ValidationBodies :
          /\ nextId <= MaxDrafts \/ Rejects(body)
          /\ createExpense(body)
          /\ OtherUnchanged
    \/ \E id \in ValidationIds : getExpense(id) /\ OtherUnchanged
    \/ \E id \in ValidationIds, body \in ValidationBodies :
          updateExpense(id, body) /\ OtherUnchanged
    \/ \E id \in ValidationIds : deleteExpense(id) /\ OtherUnchanged

SpecValidation == Init /\ [][NextValidation]_vars

(* ------------------------------------------------------------------------ *)
(* Dates                                                                    *)
(* ------------------------------------------------------------------------ *)

\* A Date is an instant counted in ticks since the epoch, in UTC.  The
\* calendar is abstracted to months of equal length and days of a few ticks.
TicksPerDay == 2
DaysPerMonth == 31
MonthsPerYear == 12
TicksPerMonth == TicksPerDay * DaysPerMonth
TicksPerYear == TicksPerMonth * MonthsPerYear

\* the instant `t` ticks after midnight UTC of the day y-m-d
DateUTC(y, m, d, t) ==
    y * TicksPerYear + (m - 1) * TicksPerMonth + (d - 1) * TicksPerDay + t

\* a date-only text "YYYY-MM-DD", as the client's date inputs produce it
Day(y, m, d) == [kind |-> "date", y |-> y, m |-> m, d |-> d]
\* a text that is not a date, and the empty text
InvalidDateText == [kind |-> "invalid", y |-> 0, m |-> 0, d |-> 0]
EmptyDateText == [kind |-> "empty", y |-> 0, m |-> 0, d |-> 0]
IsDateText(s) == s.kind = "date"

\* new Date("YYYY-MM-DD"): a date-only text is midnight UTC of that day
ParseDate(s) == DateUTC(s.y, s.m, s.d, 0)

\* the $month operator (1..12, UTC) and the UTC year of an instant
MonthOf(date) == ((date \div TicksPerMonth) % MonthsPerYear) + 1
YearOf(date) == date \div TicksPerYear

(* ------------------------------------------------------------------------ *)
(* GET /api/expenses: filters, sort, totals                                 *)
(* ------------------------------------------------------------------------ *)

MsgCastDate == "Cast to date failed"

\* req.query: every parameter is optional text; `sort` is kept as the parts
\* that sort.split(':') yields
Query(category, startDate, endDate, sort) ==
    [category |-> category, startDate |-> startDate, endDate |-> endDate,
     sort |-> sort]

\* JavaScript truthiness of a query parameter: present and not the empty text
Truthy(o) == Present(o) /\ Val(o) # ""
TruthyDate(o) == Present(o) /\ Val(o) # EmptyDateText

\* the filter handed to Expense.find
BuildQuery(q) ==
    [category |-> IF Truthy(q.category) THEN q.category ELSE Absent,
     gte |-> IF TruthyDate(q.startDate) THEN q.startDate ELSE Absent,
     lte |-> IF TruthyDate(q.endDate) THEN q.endDate ELSE Absent]

\* a date bound that does not parse is an Invalid Date, which the query
\* cast refuses
QueryCastFails(f) ==
    \/ Present(f.gte) /\ ~IsDateText(Val(f.gte))
    \/ Present(f.lte) /\ ~IsDateText(Val(f.lte))

\* faulty variant: the filter has no upper date bound
SelectsNoUpperBound(f, doc) ==
    /\ Present(f.category) => doc.category = Val(f.category)
    /\ Present(f.gte) => doc.date >= ParseDate(Val(f.gte))

\* the documents a filter selects
Selects(f, doc) ==
    /\ Present(f.category) => doc.category = Val(f.category)
    /\ Present(f.gte) => doc.date >= ParseDate(Val(f.gte))
    /\ Present(f.lte) => doc.date <= ParseDate(Val(f.lte))

\* faulty variant: the order part of `sort` is ignored
SortOptionsAlwaysDescending(sort) ==
    IF ~(Present(sort) /\ Val(sort) # << >>)
    THEN [field |-> "date", dir |-> -1]
    ELSE [field |-> Val(sort)[1], dir |-> -1]

\* { date: -1 } unless `sort` is given: [field, order] = sort.split(':'),
\* ascending when order is 'asc' and descending for anything else
SortOptions(sort) ==
    IF ~(Present(sort) /\ Val(sort) # << >>)
    THEN [field |-> "date", dir |-> -1]
    ELSE [field |-> Val(sort)[1],
          dir |-> IF Len(Val(sort)) >= 2 /\ Val(sort)[2] = "asc" THEN 1 ELSE -1]

\* the value a document is sorted by; a path the documents do not have
\* compares equal for all of them
SortKey(doc, field) ==
    CASE field = "date" -> doc.date
      [] field = "amount" -> doc.amount
      [] field = "createdAt" -> doc.createdAt
      [] field = "updatedAt" -> doc.updatedAt
      [] OTHER -> 0

\* the orders in which a set of keys can be listed
Orders(S) ==
    {p \in [1..Cardinality(S) -> S] : \A i, j \in DOMAIN p : i # j => p[i] # p[j]}

\* Expense.find(filter).sort(options): the selected documents in an order
\* that follows the sort key; documents with equal keys come in any order
Find(f, opts) ==
    LET ids == {i \in DOMAIN store : Selects(f, store[i])}
        InOrder(p) ==
            \A i, j \in DOMAIN p :
                i < j => opts.dir * SortKey(store[p[i]], opts.field)
                            <= opts.dir * SortKey(store[p[j]], opts.field)
    IN {[k \in DOMAIN p |-> store[p[k]]] : p \in {q \in Orders(ids) : InOrder(q)}}

\* faulty variant: the reduction keeps only the last amount
ReduceAmountsLastOnly(expenses) ==
    IF expenses = << >> THEN 0 ELSE expenses[Len(expenses)].amount

\* expenses.reduce((sum, expense) => sum + expense.amount, 0)
RECURSIVE ReduceAmounts(_)
ReduceAmounts(expenses) ==
    IF expenses = << >> THEN 0
    ELSE ReduceAmounts(SubSeq(expenses, 1, Len(expenses) - 1))
            + expenses[Len(expenses)].amount

\* GET /api/expenses
getExpenses(q) ==
    LET f == BuildQuery(q)
    IN /\ IF QueryCastFails(f)
          THEN last' = ErrorMiddleware("list", NoId, q, MsgCastDate)
          ELSE \E expenses \in Find(f, SortOptions(q.sort)) :
                  last' = Response("list", NoId, q, 200, "", {},
                                   Some([count |-> Len(expenses),
                                         total |-> ReduceAmounts(expenses),
                                         data |-> expenses]))
       /\ UNCHANGED <<store, now, nextId, hist>>

\* the day the date filters of the list specification name, and the instants
\* of its expenses: the evening before, that midnight, later that day
FilterDay == Day(0, 1, 2)

\* drafts of the list specification: two amounts and two categories (one of
\* them the default) spread over the three instants
ListedBodies ==
    {Body(Some(Str(0, 1)), Some(AmountMin + 3 + 4 * ((k + c) % 2)),
          IF c = 0 THEN Some("Food") ELSE Absent,
          Some(DateUTC(0, 1, 1 + (k \div TicksPerDay), k % TicksPerDay)), Absent) :
        k \in {TicksPerDay - 1, TicksPerDay, TicksPerDay + 1}, c \in {0, 1}}

SortIn == {<<"date", "asc">>, <<"amount", "asc">>, <<"amount", "desc">>}

Queries ==
    {Query(category, startDate, endDate, sort) :
        category \in Opt({"Food", "Travel", ""}),
        startDate \in Opt({FilterDay}),
        endDate \in Opt({FilterDay}),
        sort \in Opt(SortIn)}

\* the list specification: expenses are added and listed under every query
NextQuery ==
    \/ \E body \in ListedBodies : createExpense(body) /\ OtherUnchanged
    \/ \E q \in Queries : getExpenses(q) /\ OtherUnchanged

SpecQuery == Init /\ [][NextQuery]_vars

(* ------------------------------------------------------------------------ *)
(* GET /api/expenses/stats: the three aggregations                          *)
(* ------------------------------------------------------------------------ *)

\* { $sum: '$amount' } over the documents of a group
RECURSIVE GroupSum(_)
GroupSum(ids) ==
    IF ids = {} THEN 0
    ELSE LET i == CHOOSE k \in ids : TRUE
         IN store[i].amount + GroupSum(ids \ {i})

\* faulty variant: the groups are returned without the $sort stage
getTotalByCategoryUnsorted ==
    LET groups ==
            {[_id |-> c,
              total |-> GroupSum({i \in DOMAIN store : store[i].category = c})] :
                c \in {store[i].category : i \in DOMAIN store}}
    IN {[k \in DOMAIN p |-> p[k]] : p \in Orders(groups)}

\* faulty variant: the documents without an explicit category are not grouped
getTotalByCategoryNoDefault ==
    LET groups ==
            {[_id |-> c,
              total |-> GroupSum({i \in DOMAIN store : store[i].category = c})] :
                c \in {store[i].category : i \in DOMAIN store} \ {CategoryDefault}}
    IN {p \in Orders(groups) :
            \A i, j \in DOMAIN p : i < j => p[i].total >= p[j].total}

\* Expense.getTotalByCategory(): $group by category with the sum of amount,
\* then $sort by total descending; groups of equal total come in any order
getTotalByCategory ==
    LET groups ==
            {[_id |-> c,
              total |-> GroupSum({i \in DOMAIN store : store[i].category = c})] :
                c \in {store[i].category : i \in DOMAIN store}}
    IN {p \in Orders(groups) :
            \A i, j \in DOMAIN p : i < j => p[i].total >= p[j].total}

\* Expense.getMonthlyExpenses(year): $match the dates from new Date(year-01-01)
\* to new Date(year-12-31), $group by $month with the sum of amount, $sort by
\* month ascending
getMonthlyExpenses(year) ==
    LET matched ==
            {i \in DOMAIN store :
                /\ store[i].date >= ParseDate(Day(year, 1, 1))
                /\ store[i].date <= ParseDate(Day(year, MonthsPerYear, DaysPerMonth))}
        groups ==
            {[_id |-> m,
              total |-> GroupSum({i \in matched : MonthOf(store[i].date) = m})] :
                m \in {MonthOf(store[i].date) : i \in matched}}
    IN CHOOSE p \in Orders(groups) :
            \A i, j \in DOMAIN p : i < j => p[i]._id < p[j]._id

\* faulty variant: the total is taken over the expenses of the current year
AggregateTotalOfYear ==
    LET ids == {i \in DOMAIN store : YearOf(store[i].date) = YearOf(now)}
    IN IF ids = {} THEN << >> ELSE <<[_id |-> "null", total |-> GroupSum(ids)]>>

\* Expense.aggregate([{ $group: { _id: null, total: { $sum: '$amount' } } }]):
\* one group over all documents, no group when there is no document
AggregateTotal ==
    IF DOMAIN store = {} THEN << >>
    ELSE <<[_id |-> "null", total |-> GroupSum(DOMAIN store)]>>

\* getExpenseStats, first await: categoryStats
getExpenseStatsCategories ==
    /\ stats.pc = "idle"
    /\ \E categoryStats \in getTotalByCategory :
          stats' = [stats EXCEPT !.pc = "categories", !.byCategory = categoryStats,
                                 !.byMonth = << >>, !.quiet = TRUE]
    /\ UNCHANGED <<store, now, nextId, last, hist>>

\* getExpenseStats, second await: monthlyStats of the current year
getExpenseStatsMonths ==
    /\ stats.pc = "categories"
    /\ LET currentYear == YearOf(now)
       IN stats' = [stats EXCEPT !.pc = "months",
                                 !.byMonth = getMonthlyExpenses(currentYear)]
    /\ UNCHANGED <<store, now, nextId, last, hist>>

\* faulty variant: the total of the response is the largest total of categoryStats
getExpenseStatsTotalFromCategories ==
    /\ stats.pc = "months"
    /\ LET total == Len(stats.byCategory)
       IN last' = Response("stats", NoId, NoBody, 200, "", {},
                           Some([total |-> IF total > 0 THEN stats.byCategory[1].total ELSE 0,
                                 byCategory |-> stats.byCategory,
                                 byMonth |-> stats.byMonth]))
    /\ stats' = [stats EXCEPT !.pc = "idle", !.byCategory = << >>, !.byMonth = << >>]
    /\ UNCHANGED <<store, now, nextId, hist>>

\* getExpenseStats, third await: total, and the response
getExpenseStatsTotal ==
    /\ stats.pc = "months"
    /\ LET total == AggregateTotal
       IN last' = Response("stats", NoId, NoBody, 200, "", {},
                           Some([total |-> IF Len(total) > 0 THEN total[1].total ELSE 0,
                                 byCategory |-> stats.byCategory,
                                 byMonth |-> stats.byMonth]))
    /\ stats' = [stats EXCEPT !.pc = "idle", !.byCategory = << >>, !.byMonth = << >>]
    /\ UNCHANGED <<store, now, nextId, hist>>

\* the year of the statistics specification and the instant its clock shows
StatsYear == 1
StatsNow == DateUTC(StatsYear, 6, 15, 0)

\* drafts of the statistics specification: two on 31 December of the year
\* (at midnight and later that day), one at midnight of 1 January, one in
\* the year after and one in the year before
StatsBodies ==
    {Body(Some(Str(0, 1)), Some(AmountMin + 7), Some("Food"),
          Some(DateUTC(StatsYear, MonthsPerYear, DaysPerMonth, 1)), Absent),
     Body(Some(Str(0, 1)), Some(AmountMin + 5), Some("Transportation"),
          Some(DateUTC(StatsYear, MonthsPerYear, DaysPerMonth, 0)), Absent),
     Body(Some(Str(0, 1)), Some(AmountMin + 5), Some("Food"),
          Some(DateUTC(StatsYear, 1, 1, 0)), Absent),
     Body(Some(Str(0, 1)), Some(AmountMin + 7), Absent,
          Some(DateUTC(StatsYear + 1, 1, 1, 0)), Absent),
     Body(Some(Str(0, 1)), Some(AmountMin + 7), Some("Transportation"),
          Some(DateUTC(StatsYear - 1, MonthsPerYear, DaysPerMonth, TicksPerDay - 1)),
          Absent)}

StatsQueries == {Query(Some("Food"), Absent, Absent, Absent)}

InitStats ==
    /\ store = [i \in {} |-> 0]
    /\ now = StatsNow
    /\ nextId = 1
    /\ last = Response("none", NoId, NoBody, 0, "", {}, Absent)
    /\ hist = [created |-> {}, updated |-> {}, deleted |-> {}, draft |-> [i \in {} |-> 0]]
    /\ stats = NoStats
    /\ nodeEnv = "development"
    /\ client = ClientInit
    /\ server = ServerUp

\* history of the statistics request: a write that changes the collection
\* ends its quiet period; a list request is remembered
Disturbs ==
    /\ stats' = [stats EXCEPT !.quiet = @ /\ store' = store]
    /\ UNCHANGED <<nodeEnv, client, server>>
Lists ==
    /\ stats' = [stats EXCEPT !.listed = TRUE]
    /\ UNCHANGED <<nodeEnv, client, server>>

\* a step of the statistics request leaves the environment, the client and
\* the server process alone
StatsUnchanged == UNCHANGED <<nodeEnv, client, server>>

\* the statistics specification: the three reads of a statistics request
\* interleave with the other requests
NextStats ==
    \/ \E body \in StatsBodies : createExpense(body) /\ Disturbs
    \/ \E id \in WellFormedIds : deleteExpense(id) /\ Disturbs
    \/ \E q \in StatsQueries : getExpenses(q) /\ Lists
    \/ getExpenseStatsCategories /\ StatsUnchanged
    \/ getExpenseStatsMonths /\ StatsUnchanged
    \/ getExpenseStatsTotal /\ StatsUnchanged

SpecStats == InitStats /\ [][NextStats]_vars

(* ------------------------------------------------------------------------ *)
(* Errors forwarded to the error middleware                                 *)
(* ------------------------------------------------------------------------ *)

\* messages of the error the store rejects a call with when it cannot serve
\* it; the call has no effect on the collection
StoreErrors == {"connection closed", ""}

\* the catch block of a handler: the awaited store call rejects and the
\* error goes to next()
storeRejects(op, message) ==
    /\ last' = ErrorMiddleware(op, NoId, NoBody, message)
    /\ UNCHANGED <<store, now, nextId, hist, stats, nodeEnv, client, server>>

\* the catch block of getExpenseStats: the next of its awaits rejects
getExpenseStatsRejects(message) ==
    /\ last' = ErrorMiddleware("stats", NoId, NoBody, message)
    /\ stats' = [stats EXCEPT !.pc = "idle", !.byCategory = << >>, !.byMonth = << >>]
    /\ UNCHANGED <<store, now, nextId, hist, nodeEnv, client, server>>

Environments == {"production", "development", "test"}

\* bodies of the error specification: a valid draft, a valid and an invalid
\* partial update
ErrorBodies ==
    {Body(Some(Str(1, 1)), Some(AmountMin + 7), Absent, Absent, Absent),
     Body(Absent, Some(AmountMin), Absent, Absent, Absent),
     Body(Absent, Some(AmountMin - 1), Absent, Absent, Absent)}

ErrorQueries ==
    {Query(Absent, Some(InvalidDateText), Absent, Absent),
     Query(Absent, Some(FilterDay), Some(InvalidDateText), Absent),
     Query(Absent, Some(EmptyDateText), Some(FilterDay), Absent)}

InitErrors ==
    /\ store = [i \in {} |-> 0]
    /\ now = 0
    /\ nextId = 1
    /\ last = Response("none", NoId, NoBody, 0, "", {}, Absent)
    /\ hist = [created |-> {}, updated |-> {}, deleted |-> {}, draft |-> [i \in {} |-> 0]]
    /\ stats = NoStats
    /\ nodeEnv \in Environments
    /\ client = ClientInit
    /\ server = ServerUp

\* the error specification: every handler, with requests that fail in the
\* store, in every environment
NextErrors ==
    \/ \E body \in ErrorBodies : createExpense(body) /\ OtherUnchanged
    \/ \E id \in ReqIds : getExpense(id) /\ OtherUnchanged
    \/ \E id \in ReqIds, body \in ErrorBodies :
          updateExpense(id, body) /\ OtherUnchanged
    \/ \E id \in ReqIds : deleteExpense(id) /\ OtherUnchanged
    \/ \E q \in ErrorQueries : getExpenses(q) /\ OtherUnchanged
    \/ getExpenseStatsCategories /\ StatsUnchanged
    \/ getExpenseStatsMonths /\ StatsUnchanged
    \/ getExpenseStatsTotal /\ StatsUnchanged
    \/ \E op \in {"list", "get", "create", "update", "delete"}, message \in StoreErrors :
          storeRejects(op, message)
    \/ \E message \in StoreErrors : getExpenseStatsRejects(message)

SpecErrors == InitErrors /\ [][NextErrors]_vars

(* ------------------------------------------------------------------------ *)
(* The server process: start, and the router of /api/expenses                *)
(* ------------------------------------------------------------------------ *)

\* the path of a request below /api/expenses: its text, and what its one
\* segment is as an ObjectId ('stats' is not a 24-hex-digit text)
RootPath == [text |-> "/", id |-> NoId]
StatsPath == [text |-> "/stats", id |-> MalformedId]
IdPath(id) == [text |-> IF id.wf THEN "/<ObjectId>" ELSE "/<text>", id |-> id]

Route(method, pattern, handler) ==
    [method |-> method, pattern |-> pattern, handler |-> handler]

\* faulty variant: the /:id route is registered before the /stats route
RoutesIdFirst ==
    <<Route("GET", "/", "getExpenses"),
      Route("GET", "/:id", "getExpense"),
      Route("GET", "/stats", "getExpenseStats"),
      Route("POST", "/", "createExpense"),
      Route("PUT", "/:id", "updateExpense"),
      Route("DELETE", "/:id", "deleteExpense")>>

\* the routes of routes/expenseRoutes, in the order they are registered
Routes ==
    <<Route("GET", "/", "getExpenses"),
      Route("GET", "/stats", "getExpenseStats"),
      Route("GET", "/:id", "getExpense"),
      Route("POST", "/", "createExpense"),
      Route("PUT", "/:id", "updateExpense"),
      Route("DELETE", "/:id", "deleteExpense")>>

\* a pattern matches a path: a literal pattern matches its own text, the
\* parameter pattern /:id matches every path of one segment
MatchesPattern(pattern, path) ==
    IF pattern = "/:id" THEN path.text # "/" ELSE path.text = pattern

\* the router hands a request to the first route that matches its method and
\* path; "" when no route matches
Dispatch(method, path) ==
    LET matching == {k \in DOMAIN Routes :
                        /\ Routes[k].method = method
                        /\ MatchesPattern(Routes[k].pattern, path)}
    IN IF matching = {} THEN ""
       ELSE Routes[CHOOSE k \in matching : \A j \in matching : k <= j].handler

MsgCannot == "Cannot <method> <path>"

\* the server process before mongoose.connect settles
ServerStarting ==
    [db |-> "connecting", listening |-> FALSE, exit |-> Absent, req |-> NoRequest]

\* mongoose.connect(...).then: the connection succeeded, app.listen(PORT)
connectResolves ==
    /\ server.db = "connecting"
    /\ server' = [server EXCEPT !.db = "connected", !.listening = TRUE]
    /\ UNCHANGED <<store, now, nextId, last, hist, stats, nodeEnv, client>>

\* faulty variant: the server starts listening although the connection failed
connectRejectsAndListens ==
    /\ server.db = "connecting"
    /\ server' = [server EXCEPT !.db = "failed", !.listening = TRUE]
    /\ UNCHANGED <<store, now, nextId, last, hist, stats, nodeEnv, client>>

\* mongoose.connect(...).catch: the connection failed, process.exit(1)
connectRejects ==
    /\ server.db = "connecting"
    /\ server' = [server EXCEPT !.db = "failed", !.exit = Some(1)]
    /\ UNCHANGED <<store, now, nextId, last, hist, stats, nodeEnv, client>>

\* a request arrives at the listening server and the router dispatches it;
\* getExpenseStats begins with its first read
route(method, path, body, q) ==
    /\ server.listening
    /\ ~Present(server.exit)
    /\ LET handler == Dispatch(method, path)
       IN /\ server' = [server EXCEPT !.req = [method |-> method, path |-> path.text,
                                               id |-> path.id, handler |-> handler]]
          /\ CASE handler = "getExpenses" ->
                    getExpenses(q) /\ UNCHANGED stats
               [] handler = "getExpenseStats" ->
                    getExpenseStatsCategories
               [] handler = "getExpense" ->
                    getExpense(path.id) /\ UNCHANGED stats
               [] handler = "createExpense" ->
                    createExpense(body) /\ UNCHANGED stats
               [] handler = "updateExpense" ->
                    updateExpense(path.id, body) /\ UNCHANGED stats
               [] handler = "deleteExpense" ->
                    deleteExpense(path.id) /\ UNCHANGED stats
               [] OTHER ->
                    /\ last' = Response("none", path.id, NoBody, 404, MsgCannot, {}, Absent)
                    /\ UNCHANGED <<store, now, nextId, hist, stats>>
    /\ UNCHANGED <<nodeEnv, client>>

Methods == {"GET", "POST", "PUT", "DELETE"}

\* req.body of the server specification: a valid draft and an invalid
\* partial update with POST and PUT, no body with GET and DELETE
ServerBodies(method) ==
    IF method \in {"POST", "PUT"}
    THEN {Body(Some(Str(1, 1)), Some(AmountMin + 7), Absent, Absent, Absent),
          Body(Absent, Some(AmountMin - 1), Absent, Absent, Absent)}
    ELSE {NoBody}
Paths == {RootPath, StatsPath} \cup {IdPath(id) : id \in ReqIds}

InitServer ==
    /\ store = [i \in {} |-> 0]
    /\ now = 0
    /\ nextId = 1
    /\ last = Response("none", NoId, NoBody, 0, "", {}, Absent)
    /\ hist = [created |-> {}, updated |-> {}, deleted |-> {}, draft |-> [i \in {} |-> 0]]
    /\ stats = NoStats
    /\ nodeEnv = "development"
    /\ client = ClientInit
    /\ server = ServerStarting

\* the server specification: the process starts, then serves the requests
\* that the router dispatches
NextServer ==
    \/ connectResolves
    \/ connectRejects
    \/ \E method \in Methods, path \in Paths :
          \E body \in ServerBodies(method), q \in StatsQueries :
             route(method, path, body, q)
    \/ getExpenseStatsMonths /\ StatsUnchanged
    \/ getExpenseStatsTotal /\ StatsUnchanged

SpecServer == InitServer /\ [][NextServer]_vars

(* ------------------------------------------------------------------------ *)
(* The ExpenseProvider of the browser: loading flag                         *)
(* ------------------------------------------------------------------------ *)

\* useEffect on the initial render: getExpenses() and getExpenseStats() are
\* called one after the other, each up to its axios request
mount ==
    /\ ~client.mounted
    /\ client' = [client EXCEPT !.mounted = TRUE,
                                !.loading = TRUE,
                                !.outstanding["getExpenses"] = @ + 1,
                                !.outstanding["getExpenseStats"] = @ + 1]
    /\ UNCHANGED <<store, now, nextId, last, hist, stats, nodeEnv, server>>

\* a component calls an operation: setLoading(true) unless the operation is
\* getExpenseById, then the axios request is sent
call(op) ==
    /\ client.mounted
    /\ client.outstanding[op] < MaxOutstanding
    /\ client' = [client EXCEPT !.loading = IF op \in LoadingOps THEN TRUE ELSE @,
                                !.outstanding[op] = @ + 1]
    /\ UNCHANGED <<store, now, nextId, last, hist, stats, nodeEnv, server>>

\* the axios request of a call is answered or fails: after try or catch, the
\* finally block of every operation does setLoading(false)
settle(op) ==
    /\ client.outstanding[op] > 0
    /\ client' = [client EXCEPT !.loading = FALSE, !.outstanding[op] = @ - 1]
    /\ UNCHANGED <<store, now, nextId, last, hist, stats, nodeEnv, server>>

\* the client specification: calls of the provider's operations and their
\* completions, in any order
NextClient ==
    \/ mount
    \/ \E op \in ClientOps : call(op)
    \/ \E op \in ClientOps : settle(op)

SpecClient == Init /\ [][NextClient]_vars

(* ------------------------------------------------------------------------ *)
(* The ExpenseProvider of the browser: requests, responses and the list     *)
(* ------------------------------------------------------------------------ *)

\* calls the components make in one run of the application specification
MaxCalls == 2

\* the operations whose setExpenses reads the expenses of the render that
\* made the call
Mutations == {"addExpense", "updateExpense", "deleteExpense"}

\* the operations whose catch block ends with throw error
Rethrowing == Mutations \cup {"getExpenseById"}

NoResponse == Response("none", NoId, NoBody, 0, "", {}, Absent)

\* an axios request without a response: the promise rejects
MsgNetwork == "Network Error"
NetworkError(r) == Response(r.op, r.id, r.body, 0, MsgNetwork, {}, Absent)

\* the request of a call: its arguments, the expenses its closure holds (the
\* state of the render that made the call), and whether the caller is
\* Dashboard.handleDelete, which goes on with getExpenseStats(); the request
\* of that getExpenseStats() keeps the id handleDelete was called with, and
\* reads records the ids of the expenses the aggregations of the statistics
\* handler have read
Request(n, op, id, body, q, refetch) ==
    [n |-> n, op |-> op, id |-> id, body |-> body, q |-> q, refetch |-> refetch,
     captured |-> IF op \in Mutations THEN client.expenses ELSE << >>,
     phase |-> "sent", response |-> NoResponse, reads |-> {}]

\* the provider after a call: setLoading(true) unless the operation is
\* getExpenseById, and the request is on its way
Sent(c, r) ==
    [c EXCEPT !.loading = IF r.op \in LoadingOps THEN TRUE ELSE @,
              !.outstanding[r.op] = @ + 1,
              !.issued = r.n,
              !.inflight = @ \cup {r}]

NoQuery == Query(Absent, Absent, Absent, Absent)

\* useEffect on the initial render: getExpenses() and getExpenseStats()
mountSends ==
    /\ ~client.mounted
    /\ LET list == Request(client.issued + 1, "getExpenses", NoId, NoBody, NoQuery, FALSE)
           st == Request(client.issued + 2, "getExpenseStats", NoId, NoBody, NoQuery, FALSE)
       IN client' = [Sent(Sent(client, list), st) EXCEPT !.mounted = TRUE]
    /\ UNCHANGED <<store, now, nextId, last, hist, stats, nodeEnv, server>>

\* a component calls an operation of the provider
sends(op, id, body, q, refetch) ==
    /\ client.mounted
    /\ client.calls < MaxCalls
    /\ LET r == Request(client.issued + 1, op, id, body, q, refetch)
       IN client' = [Sent(client, r) EXCEPT !.calls = @ + 1]
    /\ UNCHANGED <<store, now, nextId, last, hist, stats, nodeEnv, server>>

\* the provider once the server has answered request r with response
Answered(r, response) ==
    [client EXCEPT !.inflight =
        {r2 \in @ : r2.n # r.n}
           \cup {[r EXCEPT !.phase = "answered", !.response = response]}]

\* the request reaches the server and its handler answers; the statistics
\* handler answers after its three reads
serves(r) ==
    /\ r \in client.inflight
    /\ r.phase = "sent"
    /\ r.op # "getExpenseStats"
    /\ CASE r.op = "getExpenses" -> getExpenses(r.q)
         [] r.op = "getExpenseById" -> getExpense(r.id)
         [] r.op = "addExpense" -> createExpense(r.body)
         [] r.op = "updateExpense" -> updateExpense(r.id, r.body)
         [] r.op = "deleteExpense" -> deleteExpense(r.id)
    /\ client' = Answered(r, last')
    /\ UNCHANGED <<stats, nodeEnv, server>>

servesStats(r) ==
    /\ r \in client.inflight
    /\ r.phase = "sent"
    /\ r.op = "getExpenseStats"
    /\ getExpenseStatsCategories
    /\ client' = [client EXCEPT !.inflight =
          (@ \ {r}) \cup {[r EXCEPT !.phase = "serving", !.reads = DOMAIN store]}]
    /\ UNCHANGED <<nodeEnv, server>>

servesStatsMonths ==
    /\ getExpenseStatsMonths
    /\ \E r \in client.inflight :
          /\ r.phase = "serving"
          /\ client' = [client EXCEPT !.inflight =
                (@ \ {r}) \cup {[r EXCEPT !.reads = @ \cup DOMAIN store]}]
    /\ UNCHANGED <<nodeEnv, server>>

servesStatsTotal ==
    /\ getExpenseStatsTotal
    /\ \E r \in client.inflight :
          /\ r.phase = "serving"
          /\ client' = Answered([r EXCEPT !.reads = @ \cup DOMAIN store], last')
    /\ UNCHANGED <<nodeEnv, server>>

\* the request fails before a handler answers it
fails(r) ==
    /\ r \in client.inflight
    /\ r.phase = "sent"
    /\ client' = Answered(r, NetworkError(r))
    /\ UNCHANGED <<store, now, nextId, last, hist, stats, nodeEnv, server>>

\* faulty variant: the created record is put behind the others
AfterAddAtEnd(expenses, data) == Append(expenses, data)

\* addExpense: setExpenses([response.data.data, ...expenses])
AfterAdd(expenses, data) == <<data>> \o expenses

\* updateExpense: setExpenses(expenses.map(expense =>
\*    expense._id === id ? response.data.data : expense))
AfterUpdate(expenses, id, data) ==
    [k \in DOMAIN expenses |-> IF expenses[k]._id = id.n THEN data ELSE expenses[k]]

\* deleteExpense: setExpenses(expenses.filter(expense => expense._id !== id))
AfterDelete(expenses, id) == SelectSeq(expenses, LAMBDA expense : expense._id # id.n)

\* the list a resolved request hands to setExpenses; getExpenseById and
\* getExpenseStats leave the list as it is
SetExpenses(r, expenses) ==
    LET data == r.response.data
    IN CASE r.op = "getExpenses" -> Val(data).data
         [] r.op = "addExpense" -> AfterAdd(r.captured, Val(data))
         [] r.op = "updateExpense" -> AfterUpdate(r.captured, r.id, Val(data))
         [] r.op = "deleteExpense" -> AfterDelete(r.captured, r.id)
         [] OTHER -> expenses

\* faulty variant: setLoading(false) is missing after a failed request
deliversWithoutFinally(r) ==
    /\ r \in client.inflight
    /\ r.phase = "answered"
    /\ LET ok == r.response.success
           data == r.response.data
           done ==
              [client EXCEPT
                 !.expenses = IF ok THEN SetExpenses(r, @) ELSE @,
                 !.statsData = IF ok /\ r.op = "getExpenseStats" THEN Val(data) ELSE @,
                 !.statsOf = IF ok /\ r.op = "getExpenseStats" THEN r.reads ELSE @,
                 !.refetched = IF ok /\ r.op = "getExpenseStats" /\ r.id # NoId
                               THEN @ \cup {r.id.n} ELSE @,
                 !.settled = Outcome(r.n, ~ok /\ r.op \in Rethrowing),
                 !.loading = IF ok THEN FALSE ELSE @,
                 !.outstanding[r.op] = @ - 1,
                 !.inflight = @ \ {r}]
           refetch == Request(client.issued + 1, "getExpenseStats", r.id, NoBody,
                              NoQuery, FALSE)
       IN client' = IF ok /\ r.op = "deleteExpense" /\ r.refetch
                    THEN Sent(done, refetch)
                    ELSE done
    /\ UNCHANGED <<store, now, nextId, last, hist, stats, nodeEnv, server>>

\* the response of request r is processed: the try block after the await
\* when axios resolved (a 2xx status), the catch block when it rejected, then
\* finally setLoading(false); Dashboard.handleDelete calls getExpenseStats()
\* once its await of deleteExpense has resolved
delivers(r) ==
    /\ r \in client.inflight
    /\ r.phase = "answered"
    /\ LET ok == r.response.success
           data == r.response.data
           done ==
              [client EXCEPT
                 !.expenses = IF ok THEN SetExpenses(r, @) ELSE @,
                 !.statsData = IF ok /\ r.op = "getExpenseStats" THEN Val(data) ELSE @,
                 !.statsOf = IF ok /\ r.op = "getExpenseStats" THEN r.reads ELSE @,
                 !.refetched = IF ok /\ r.op = "getExpenseStats" /\ r.id # NoId
                               THEN @ \cup {r.id.n} ELSE @,
                 !.settled = Outcome(r.n, ~ok /\ r.op \in Rethrowing),
                 !.loading = FALSE,
                 !.outstanding[r.op] = @ - 1,
                 !.inflight = @ \ {r}]
           refetch == Request(client.issued + 1, "getExpenseStats", r.id, NoBody,
                              NoQuery, FALSE)
       IN client' = IF ok /\ r.op = "deleteExpense" /\ r.refetch
                    THEN Sent(done, refetch)
                    ELSE done
    /\ UNCHANGED <<store, now, nextId, last, hist, stats, nodeEnv, server>>

\* the draft of the application specification: a Food expense
AppBodies ==
    {Body(Some(Str(0, 1)), Some(AmountMin + 7), Some("Food"),
          Some(DateUTC(0, 1, 1, 0)), Absent)}

\* the update of the application specification names a new amount
AppUpdates == {Body(Absent, Some(AmountMin + 3), Absent, Absent, Absent)}

\* the filters of the Dashboard: none, or a category without expenses
AppQueries == {NoQuery, Query(Some("Travel"), Absent, Absent, Absent)}

\* the ids of the expenses the provider holds
HeldIds == {[wf |-> TRUE, n |-> client.expenses[k]._id] : k \in DOMAIN client.expenses}

\* the application specification: the provider mounts, components call its
\* operations on the expenses they show, requests are answered or fail and
\* responses are processed in any order
NextApp ==
    \/ mountSends
    \/ \E q \in AppQueries : sends("getExpenses", NoId, NoBody, q, FALSE)
    \/ \E body \in AppBodies : sends("addExpense", NoId, body, NoQuery, FALSE)
    \/ \E id \in HeldIds, body \in AppUpdates :
          sends("updateExpense", id, body, NoQuery, FALSE)
    \/ \E id \in HeldIds, refetch \in BOOLEAN :
          sends("deleteExpense", id, NoBody, NoQuery, refetch)
    \/ \E r \in client.inflight : serves(r)
    \/ \E r \in client.inflight : servesStats(r)
    \/ servesStatsMonths
    \/ servesStatsTotal
    \/ \E r \in client.inflight : fails(r)
    \/ \E r \in client.inflight : delivers(r)

SpecApp == Init /\ [][NextApp]_vars

\* an expense id a page other than the Dashboard names: ExpenseDetails and
\* EditExpense take the id from the address of the page
PageIds == {[wf |-> TRUE, n |-> 1]}

\* calls the pages make in one run of the specification with fairness
MaxLiveCalls == 1

\* the requests one run of that specification can send: the two of the
\* initial effect and one for every call
MaxRequests == 2 + MaxLiveCalls

\* request n is answered by its handler or fails
Settles(n) ==
    \E r \in client.inflight : r.n = n /\ (serves(r) \/ servesStats(r) \/ fails(r))

\* the continuation of the call of request n runs
Continues(n) == \E r \in client.inflight : r.n = n /\ delivers(r)

\* the provider with the calls of pages that name an expense by id, and of
\* the filters of the Dashboard
NextLive ==
    \/ mountSends
    \/ /\ client.calls < MaxLiveCalls
       /\ \/ \E q \in AppQueries : sends("getExpenses", NoId, NoBody, q, FALSE)
          \/ \E id \in PageIds : sends("getExpenseById", id, NoBody, NoQuery, FALSE)
          \/ \E id \in PageIds, body \in AppUpdates :
                sends("updateExpense", id, body, NoQuery, FALSE)
          \/ \E id \in PageIds : sends("deleteExpense", id, NoBody, NoQuery, FALSE)
    \/ \E n \in 1..MaxRequests : Settles(n)
    \/ servesStatsMonths
    \/ servesStatsTotal
    \/ \E n \in 1..MaxRequests : Continues(n)

\* fairness: React runs the effect of the first render; every HTTP request
\* settles (the assumption of the statement about completion) and a handler
\* that has started goes on; the event loop runs the continuation of an await
\* whose promise has settled
SpecLive ==
    /\ Init
    /\ [][NextLive]_vars
    /\ WF_vars(mountSends)
    /\ \A n \in 1..MaxRequests : WF_vars(Settles(n)) /\ WF_vars(Continues(n))
    /\ WF_vars(servesStatsMonths)
    /\ WF_vars(servesStatsTotal)

(* ------------------------------------------------------------------------ *)
(* ExpenseList: pagination                                                  *)
(* ------------------------------------------------------------------------ *)

\* const itemsPerPage = 10
ItemsPerPage == 10

\* the longest list the ExpenseList is given, and the highest page number its
\* next button is followed to
MaxItems == 21
MaxPage == 4

\* Math.ceil(expenses.length / itemsPerPage)
TotalPages(expenses) == (Len(expenses) + ItemsPerPage - 1) \div ItemsPerPage

\* sortedExpenses.slice(indexOfFirstItem, indexOfLastItem), the slice clipped
\* to the list
CurrentExpenses(expenses, currentPage) ==
    LET indexOfLastItem == currentPage * ItemsPerPage
        indexOfFirstItem == indexOfLastItem - ItemsPerPage
        first == IF indexOfFirstItem < 0 THEN 0 ELSE indexOfFirstItem
        last_ == IF indexOfLastItem > Len(expenses) THEN Len(expenses)
                 ELSE IF indexOfLastItem < 0 THEN 0 ELSE indexOfLastItem
    IN SubSeq(expenses, first + 1, last_)

\* the pagination controls are rendered: the list is neither loading nor
\* empty, and totalPages > 1
ControlsShown ==
    /\ ~client.loading
    /\ Len(client.expenses) # 0
    /\ TotalPages(client.expenses) > 1

\* handlePageChange(pageNumber) = setCurrentPage(pageNumber)
handlePageChange(pageNumber) ==
    /\ pageNumber <= MaxPage
    /\ client' = [client EXCEPT !.currentPage = pageNumber]
    /\ UNCHANGED <<store, now, nextId, last, hist, stats, nodeEnv, server>>

\* the previous button, disabled on page 1
clickPrevious ==
    /\ ControlsShown
    /\ client.currentPage # 1
    /\ handlePageChange(client.currentPage - 1)

\* the button of page index + 1, for index below totalPages
clickPage(pageNumber) ==
    /\ ControlsShown
    /\ pageNumber \in 1..TotalPages(client.expenses)
    /\ handlePageChange(pageNumber)

\* the next button, disabled on the page whose number is totalPages
clickNext ==
    /\ ControlsShown
    /\ client.currentPage # TotalPages(client.expenses)
    /\ handlePageChange(client.currentPage + 1)

\* the expenses the lists of the pagination specification are made of
Item(i) ==
    NewDocument(i, ApplyDefaults(ApplySetters(
        Body(Some(Str(0, 1)), Some(AmountMin + 7), Some("Food"),
             Some(DateUTC(0, 1, 1, 0)), Absent)), 0), 0)

\* the Dashboard renders the ExpenseList with new props: the provider has set
\* loading, or a list (a result of getExpenses, or the list without a deleted
\* expense)
rerenders(expenses, loading) ==
    /\ client' = [client EXCEPT !.expenses = expenses, !.loading = loading]
    /\ UNCHANGED <<store, now, nextId, last, hist, stats, nodeEnv, server>>

\* the lists the ExpenseList is given: one of every length, since the pages
\* depend on the length of the list only
PageLists == {[i \in 1..n |-> Item(i)] : n \in 0..MaxItems}

\* the pagination specification: the props change and the buttons are clicked
NextPages ==
    \/ \E expenses \in PageLists, loading \in BOOLEAN : rerenders(expenses, loading)
    \/ clickPrevious
    \/ \E pageNumber \in 1..MaxPage : clickPage(pageNumber)
    \/ clickNext

SpecPages == Init /\ [][NextPages]_vars

(* ------------------------------------------------------------------------ *)
(* ExpenseForm and EditExpense: validation and submission                   *)
(* ------------------------------------------------------------------------ *)

\* !formData.amount: the empty text and the number 0 are falsy
Falsy(amount) == amount.kind = "empty" \/ (amount.kind = "number" /\ amount.value = 0)

\* isNaN(formData.amount)
isNaN(amount) == amount.kind = "nan"

\* Number(formData.amount)
Number(amount) == amount.value

\* faulty variant: the title is not trimmed before it is tested
validateFormUntrimmed(formData) ==
    (IF RawLength(formData.title) = 0 \/ RawLength(formData.title) > TitleMaxLen
     THEN {"title"} ELSE {})
    \cup (IF Falsy(formData.amount) \/ isNaN(formData.amount)
             \/ Number(formData.amount) <= 0
          THEN {"amount"} ELSE {})
    \cup (IF formData.category = "" THEN {"category"} ELSE {})
    \cup (IF formData.date.kind = "empty" THEN {"date"} ELSE {})
    \cup (IF RawLength(formData.description) > DescriptionMaxLen
          THEN {"description"} ELSE {})

\* validateForm of ExpenseForm, and of EditExpense, which repeats it: the
\* keys of newErrors
validateForm(formData) ==
    (IF RawLength(Trim(formData.title)) = 0 THEN {"title"}
     ELSE IF RawLength(formData.title) > TitleMaxLen THEN {"title"} ELSE {})
    \cup (IF Falsy(formData.amount) THEN {"amount"}
          ELSE IF isNaN(formData.amount) \/ Number(formData.amount) <= 0
          THEN {"amount"} ELSE {})
    \cup (IF formData.category = "" THEN {"category"} ELSE {})
    \cup (IF formData.date.kind = "empty" THEN {"date"} ELSE {})
    \cup (IF RawLength(formData.description) # 0
             /\ RawLength(formData.description) > DescriptionMaxLen
          THEN {"description"} ELSE {})

\* processedData = {...formData, amount: Number(formData.amount)} as the
\* request body the server reads: the date text of the date input is cast
\* to midnight UTC of that day
ProcessedData(formData) ==
    Body(Some(formData.title), Some(Number(formData.amount)), Some(formData.category),
         Some(ParseDate(formData.date)), Some(formData.description))

\* ExpenseForm.handleSubmit: return when validateForm() is false, else
\* onSubmit(processedData), which is addExpense and its POST
handleSubmit(formData) ==
    LET newErrors == validateForm(formData)
    IN /\ client' = [client EXCEPT !.form = [data |-> formData, errors |-> newErrors]]
       /\ IF newErrors # {}
          THEN UNCHANGED <<store, now, nextId, last, hist>>
          ELSE createExpense(ProcessedData(formData))
       /\ UNCHANGED <<stats, nodeEnv, server>>

\* EditExpense.handleSubmit: return when validateForm() is false, else
\* updateExpense(id, expenseData) and its PUT
EditExpenseHandleSubmit(id, formData) ==
    LET newErrors == validateForm(formData)
    IN /\ client' = [client EXCEPT !.form = [data |-> formData, errors |-> newErrors]]
       /\ IF newErrors # {}
          THEN UNCHANGED <<store, now, nextId, last, hist>>
          ELSE updateExpense(id, ProcessedData(formData))
       /\ UNCHANGED <<stats, nodeEnv, server>>

\* a form filled in so that it passes
ValidForm ==
    FormData(Str(1, 1), AmountField("text", AmountMin + 1), "Food", Day(0, 1, 2),
             Str(0, 0))

\* what the fields of the forms hold, one field at a time: titles and
\* descriptions around the limits, with and without surrounding blanks;
\* amounts typed or fetched; a category of the select or none; a day of the
\* date input or none
FormInputs ==
    {[ValidForm EXCEPT !.title = title] :
        title \in {Str(0, 0), Str(1, 0), Str(0, TitleMaxLen), Str(1, TitleMaxLen),
                   Str(0, TitleMaxLen + 1)}}
    \cup {[ValidForm EXCEPT !.amount = amount] :
        amount \in {AmountField("empty", 0), AmountField("text", AmountMin - 1),
                    AmountField("text", AmountMin), AmountField("text", AmountMin + 1),
                    AmountField("nan", 0), AmountField("number", 0),
                    AmountField("number", AmountMin + 5)}}
    \cup {[ValidForm EXCEPT !.category = "", !.date = date] :
        date \in {EmptyDateText, Day(0, 1, 2)}}
    \cup {[ValidForm EXCEPT !.date = EmptyDateText]}
    \cup {[ValidForm EXCEPT !.description = description] :
        description \in {Str(0, DescriptionMaxLen), Str(1, DescriptionMaxLen),
                         Str(0, DescriptionMaxLen + 1)}}

\* the forms specification: the forms are submitted with any input
NextForms ==
    \/ \E formData \in FormInputs : handleSubmit(formData)
    \/ \E id \in PageIds, formData \in FormInputs : EditExpenseHandleSubmit(id, formData)

SpecForms == Init /\ [][NextForms]_vars

(* ------------------------------------------------------------------------ *)
(* Properties                                                               *)
(* ------------------------------------------------------------------------ *)

\* the field constraints of the data model, on a stored document
ValidExpense(doc) ==
    /\ doc.title.len >= 1
    /\ RawLength(doc.title) <= TitleMaxLen
    /\ doc.amount >= AmountMin
    /\ doc.category \in Categories
    /\ Present(doc.description) => RawLength(Val(doc.description)) <= DescriptionMaxLen

\* the paths of a body that violate a constraint of the data model; a missing
\* required path violates it in a draft (isNew), not in a partial update
ViolatedFields(body, isNew) ==
    {f \in Fields :
        \/ /\ f = "title"
           /\ IF Present(body.title)
              THEN Val(body.title).len = 0 \/ Val(body.title).len > TitleMaxLen
              ELSE isNew
        \/ /\ f = "amount"
           /\ IF Present(body.amount) THEN Val(body.amount) < AmountMin ELSE isNew
        \/ /\ f = "category"
           /\ Present(body.category)
           /\ Val(body.category) \notin Categories
        \/ /\ f = "description"
           /\ Present(body.description)
           /\ Val(body.description).len > DescriptionMaxLen}

\* the messages the schema declares for a path
FieldMessages(f) ==
    CASE f = "title" -> {MsgTitleRequired, MsgTitleMaxLen}
      [] f = "amount" -> {MsgAmountRequired, MsgAmountMin}
      [] f = "category" -> {MsgCategoryEnum}
      [] f = "description" -> {MsgDescriptionMaxLen}
      [] OTHER -> {}

\* C1: after any sequence of create, update and delete requests every stored
\* expense satisfies the field constraints: a title that is non-empty after
\* trimming and at most 100 characters, an amount >= 0, a category of the
\* enumeration, a description of at most 500 characters.
C1_StoredExpensesValid == \A i \in DOMAIN store : ValidExpense(store[i])

\* a stored expense that has been updated, right after an update was rejected
C1_Witness ==
    /\ last.op = "update"
    /\ last.status = 400
    /\ \E i \in DOMAIN store : i \in hist.updated

\* C2: a create whose draft violates a field constraint answers 400 with
\* success false and a list holding one message for each violated field, and
\* persists nothing: the collection (and so the count a list request returns)
\* is the same as before the request.
C2_InvalidDraftRejected ==
    [][(last'.op = "create" /\ ViolatedFields(last'.body, TRUE) # {}) =>
          /\ last'.status = 400
          /\ ~last'.success
          /\ last'.messages # {}
          /\ \A f \in Fields :
                (f \in ViolatedFields(last'.body, TRUE))
                    <=> (last'.messages \cap FieldMessages(f) # {})
          /\ Cardinality(last'.messages) = Cardinality(ViolatedFields(last'.body, TRUE))
          /\ store' = store]_vars

\* a draft violating several constraints was rejected while an expense is stored
C2_Witness ==
    /\ last.op = "create"
    /\ last.status = 400
    /\ Cardinality(last.messages) >= 2
    /\ DOMAIN store # {}

\* what a fetch returns for a draft: the values of the draft, title and
\* description trimmed when `trimmed`, the defaults for category and date
MatchesDraft(doc, body, trimmed) ==
    /\ doc.title = IF trimmed THEN Trim(Val(body.title)) ELSE Val(body.title)
    /\ doc.amount = Val(body.amount)
    /\ doc.category = IF Present(body.category) THEN Val(body.category) ELSE CategoryDefault
    /\ doc.date = IF Present(body.date) THEN Val(body.date) ELSE doc.createdAt
    /\ doc.description =
          IF Present(body.description) /\ trimmed
          THEN Some(Trim(Val(body.description))) ELSE body.description

FetchedAsCreated(trimmed) ==
    (last.op = "get" /\ last.status = 200 /\ last.id.n \notin hist.updated) =>
        LET doc == Val(last.data)
        IN /\ doc._id = last.id.n
           /\ doc.createdAt = doc.updatedAt
           /\ MatchesDraft(doc, hist.draft[last.id.n], trimmed)

\* C3 (as amended): a create of a valid draft followed by a fetch by the
\* returned id yields a record whose amount, category and date equal the
\* draft's values (category "Other" and date the creation time when the draft
\* omits them) and whose title and description equal the draft's values with
\* surrounding whitespace trimmed, plus the assigned id and createdAt equal to
\* updatedAt.
C3_FetchEqualsTrimmedDraft == FetchedAsCreated(TRUE)

\* C3 (as claimed): the fetched title and description equal the draft's
\* values as submitted, nothing altered by trimming.
C3_FetchEqualsDraft == FetchedAsCreated(FALSE)

\* the fetch of an expense created from a draft with a padded title
C3_Witness ==
    /\ last.op = "get"
    /\ last.status = 200
    /\ last.id.n \notin hist.updated
    /\ Val(hist.draft[last.id.n].title).pad > 0
    /\ Present(hist.draft[last.id.n].date)

\* a successful update leaves alone every other record and, in its own record,
\* the id, createdAt and every path the body does not name
UpdateFrame ==
    LET n == last'.id.n
    IN /\ DOMAIN store' = DOMAIN store
       /\ \A i \in DOMAIN store \ {n} : store'[i] = store[i]
       /\ store'[n]._id = store[n]._id
       /\ store'[n].createdAt = store[n].createdAt
       /\ \A f \in Fields : ~Present(last'.body[f]) => store'[n][f] = store[n][f]

C6_InvalidUpdateRejected ==
    [][(last'.op = "update" /\ Stored(last'.id)
            /\ ViolatedFields(last'.body, FALSE) # {}) =>
          /\ last'.status = 400
          /\ ~last'.success
          /\ last'.messages # {}
          /\ \A f \in Fields :
                (f \in ViolatedFields(last'.body, FALSE))
                    <=> (last'.messages \cap FieldMessages(f) # {})
          /\ store' = store]_vars

\* an update of a stored expense was rejected after the clock had advanced
C6_Witness ==
    /\ last.op = "update"
    /\ last.status = 400
    /\ Stored(last.id)
    /\ store[last.id.n].updatedAt < now

AnswersNotFound ==
    /\ last'.status = 404
    /\ ~last'.success
    /\ last'.error = MsgNotFound
    /\ store' = store

\* C7 (as amended): for a well-formed id that is not the id of a stored
\* expense, GET and DELETE, and PUT with a body that passes validation, answer
\* 404 with success false and error "Expense not found"; PUT with a body that
\* violates a constraint answers 400 with the validation messages; in every
\* case the collection is unchanged (PUT creates no record).
C7_UnknownIdNotFound ==
    [][(last'.op \in {"get", "update", "delete"} /\ last'.id.wf /\ ~Stored(last'.id)) =>
          IF last'.op = "update" /\ ViolatedFields(last'.body, FALSE) # {}
          THEN last'.status = 400 /\ last'.messages # {} /\ store' = store
          ELSE AnswersNotFound]_vars

\* C7 (as claimed): GET, PUT and DELETE each answer 404, whatever the body.
C7_UnknownIdAlwaysNotFound ==
    [][(last'.op \in {"get", "update", "delete"} /\ last'.id.wf /\ ~Stored(last'.id)) =>
          AnswersNotFound]_vars

\* a PUT naming paths answered 404 while another expense is stored
C7_Witness ==
    /\ last.op = "update"
    /\ last.status = 404
    /\ last.id.wf
    /\ last.body # NoBody
    /\ DOMAIN store # {}

\* C8: once an id has been deleted it is not in the collection any more (so
\* in no list or statistics result), a fetch by it answers 404, and every
\* later delete of it answers 404 and leaves the collection unchanged.
C8_DeletedStaysDeleted ==
    [][/\ hist'.deleted \cap DOMAIN store' = {}
       /\ (last'.op = "get" /\ last'.id.n \in hist'.deleted) =>
             (last'.status = 404 /\ last'.error = MsgNotFound)
       /\ (last'.op = "delete" /\ last'.id.n \in hist.deleted) =>
             (last'.status = 404 /\ last'.error = MsgNotFound /\ store' = store)]_vars

\* a second delete of an id answered 404 while another expense is stored
C8_Witness ==
    /\ last.op = "delete"
    /\ last.status = 404
    /\ last.id.n \in hist.deleted
    /\ DOMAIN store # {}

\* C9: every create assigns an id that no expense created before had (a
\* deleted expense's id included), no two stored expenses share an id, and no
\* update changes the id of a record.
C9_IdsFreshAndStable ==
    [][/\ (last'.op = "create" /\ last'.status = 201) =>
             /\ Val(last'.data)._id \notin hist.created
             /\ Val(last'.data)._id \in DOMAIN store'
             /\ DOMAIN store' = DOMAIN store \cup {Val(last'.data)._id}
       /\ \A i \in DOMAIN store' : store'[i]._id = i
       /\ \A i, j \in DOMAIN store' : i # j => store'[i]._id # store'[j]._id
       /\ (last'.op = "update" /\ last'.status = 200) =>
             /\ Val(last'.data)._id = last'.id.n
             /\ store'[last'.id.n]._id = store[last'.id.n]._id]_vars

\* an expense was created after another one had been deleted
C9_Witness ==
    /\ last.op = "create"
    /\ last.status = 201
    /\ hist.deleted # {}
    /\ Val(last.data)._id \notin hist.deleted

\* C10 (as claimed): a fetch by a malformed id answers 404 "Expense not
\* found", like a well-formed id that does not exist.
C10_MalformedIdNotFound ==
    (last.op = "get" /\ ~last.id.wf) =>
        (last.status = 404 /\ last.error = MsgNotFound)

\* the answer to the last request, when it is a list the server sent
Listed == last.op = "list" /\ last.status = 200
ListedData == Val(last.data).data
Range(seq) == {seq[k] : k \in DOMAIN seq}

\* a query parameter is supplied when it is present and not the empty text
Supplied(o) == Present(o) /\ Val(o) # ""
SuppliedDate(o) == Present(o) /\ Val(o).kind # "empty"

\* the stored expenses that satisfy every supplied filter of a query
Satisfying(q) ==
    {doc \in {store[i] : i \in DOMAIN store} :
        /\ Supplied(q.category) => doc.category = Val(q.category)
        /\ SuppliedDate(q.startDate) => doc.date >= ParseDate(Val(q.startDate))
        /\ SuppliedDate(q.endDate) => doc.date <= ParseDate(Val(q.endDate))}

\* C11: for every content of the collection and every combination of the
\* optional filters, a list request answers 200 with exactly the stored
\* expenses that satisfy all supplied filters (category equal, date >=
\* startDate, date <= endDate), each once; an omitted filter constrains
\* nothing, and when nothing matches the list is empty.
C11_ListIsFilteredStore ==
    last.op = "list" =>
        /\ last.status = 200
        /\ last.success
        /\ Range(ListedData) = Satisfying(last.body)
        /\ Len(ListedData) = Cardinality(Satisfying(last.body))

\* a list under all three filters that keeps one stored expense and leaves
\* another out
C11_Witness ==
    /\ Listed
    /\ Supplied(last.body.category)
    /\ SuppliedDate(last.body.startDate)
    /\ SuppliedDate(last.body.endDate)
    /\ Len(ListedData) = 1
    /\ Cardinality(DOMAIN store) = 2

\* the field and direction a query asks for: those of its `sort` parameter,
\* date descending when it has none
RequestedSort(q) ==
    IF Present(q.sort)
    THEN [field |-> Val(q.sort)[1], ascending |-> Val(q.sort)[2] = "asc"]
    ELSE [field |-> "date", ascending |-> FALSE]

\* C12: the expenses of a list are ordered by the requested sort field in
\* the requested direction (asc or desc); without a sort parameter they are
\* ordered by date, descending.
C12_ListIsSorted ==
    Listed =>
        LET by == RequestedSort(last.body)
        IN \A i, j \in DOMAIN ListedData :
              i < j => IF by.ascending
                       THEN ListedData[i][by.field] <= ListedData[j][by.field]
                       ELSE ListedData[i][by.field] >= ListedData[j][by.field]

\* a list by ascending amount that returns the later-created expense first
C12_Witness ==
    /\ Listed
    /\ last.body.sort = Some(<<"amount", "asc">>)
    /\ Len(ListedData) = 2
    /\ ListedData[1].amount < ListedData[2].amount
    /\ ListedData[1]._id > ListedData[2]._id

\* the arithmetic sum of the amounts of a set of (distinct) documents
RECURSIVE SumOfAmounts(_)
SumOfAmounts(docs) ==
    IF docs = {} THEN 0
    ELSE LET doc == CHOOSE d \in docs : TRUE
         IN doc.amount + SumOfAmounts(docs \ {doc})

\* C13: in a list response, count is the number of expenses in data and
\* total is the arithmetic sum of the amounts of exactly those expenses, 0
\* when the list is empty.
C13_CountAndTotalOfList ==
    Listed =>
        /\ Val(last.data).count = Len(ListedData)
        /\ Val(last.data).total = SumOfAmounts(Range(ListedData))
        /\ ListedData = << >> => Val(last.data).total = 0

\* a filtered list of two expenses with different amounts
C13_Witness ==
    /\ Listed
    /\ Supplied(last.body.category)
    /\ Val(last.data).count = 2
    /\ ListedData[1].amount # ListedData[2].amount
    /\ Val(last.data).total = ListedData[1].amount + ListedData[2].amount

\* the last request was a statistics request, just answered
StatsAnswered == last.op = "stats" /\ stats.pc = "idle"
StoredExpenses == {store[i] : i \in DOMAIN store}

\* C14: the total of a statistics response is the arithmetic sum of the
\* amounts of all stored expenses, whatever filters earlier list requests
\* used; on an empty collection the total is 0 and the status is 200.
C14_StatsTotalOfAllExpenses ==
    StatsAnswered =>
        /\ last.status = 200
        /\ Val(last.data).total = SumOfAmounts(StoredExpenses)
        /\ StoredExpenses = {} => Val(last.data).total = 0

\* statistics over two categories, answered after a list filtered by one
C14_Witness ==
    /\ StatsAnswered
    /\ stats.listed
    /\ Cardinality({doc.category : doc \in StoredExpenses}) = 2
    /\ Val(last.data).total > 0

\* the sum of the totals of a sequence of (key, total) pairs
RECURSIVE SumOfTotals(_)
SumOfTotals(pairs) ==
    IF pairs = << >> THEN 0
    ELSE pairs[1].total + SumOfTotals(Tail(pairs))

\* a sequence of (key, total) pairs is the grouping of a set of expenses by
\* Key: one pair for each key that some expense has, none for other keys,
\* the total of a pair being the sum of the amounts of the expenses of its key
GroupsBy(pairs, docs, Key(_)) ==
    /\ {pair._id : pair \in Range(pairs)} = {Key(doc) : doc \in docs}
    /\ Len(pairs) = Cardinality({Key(doc) : doc \in docs})
    /\ \A pair \in Range(pairs) :
          pair.total = SumOfAmounts({doc \in docs : Key(doc) = pair._id})

CategoryOf(doc) == doc.category
MonthOfExpense(doc) == MonthOf(doc.date)

\* C15: totalByCategory returns one (category, total) pair for each category
\* that has at least one stored expense and none for the others; each total
\* is the sum of the amounts of that category; the pairs are in descending
\* order of total.
C15_TotalByCategory ==
    (stats.pc = "categories" /\ stats.quiet) =>
        /\ GroupsBy(stats.byCategory, StoredExpenses, CategoryOf)
        /\ \A i, j \in DOMAIN stats.byCategory :
              i < j => stats.byCategory[i].total >= stats.byCategory[j].total

\* two categories read, the one created last having the larger total
C15_Witness ==
    /\ stats.pc = "categories"
    /\ stats.quiet
    /\ Len(stats.byCategory) = 2
    /\ stats.byCategory[1].total > stats.byCategory[2].total
    /\ \E i, j \in DOMAIN store :
          /\ i < j
          /\ store[j].category = stats.byCategory[1]._id
          /\ store[i].category = stats.byCategory[2]._id

\* C16: in a statistics response that no write was concurrent to, the totals
\* of byCategory add up to the grand total.
C16_CategoriesAddUpToTotal ==
    (StatsAnswered /\ stats.quiet) =>
        SumOfTotals(Val(last.data).byCategory) = Val(last.data).total

\* an undisturbed statistics response over two categories, one of them the
\* default category
C16_Witness ==
    /\ StatsAnswered
    /\ stats.quiet
    /\ Len(Val(last.data).byCategory) = 2
    /\ \E pair \in Range(Val(last.data).byCategory) : pair._id = CategoryDefault

\* C17: monthlyTotals(year) counts every stored expense dated from 1 January
\* to 31 December of the year, any time on 31 December included, and no
\* expense of another year: one (month, total) pair for each month of the
\* year that has an expense, in ascending order of month.
C17_MonthlyTotalsOfYear ==
    (StatsAnswered /\ stats.quiet) =>
        LET byMonth == Val(last.data).byMonth
            ofYear == {doc \in StoredExpenses : YearOf(doc.date) = YearOf(now)}
        IN /\ GroupsBy(byMonth, ofYear, MonthOfExpense)
           /\ \A i, j \in DOMAIN byMonth : i < j => byMonth[i]._id < byMonth[j]._id

\* C18: a statistics request reads its three aggregates one after the other.
\* Each read is taken from the collection as it is at that read: the category
\* totals group all stored expenses, every monthly total adds up stored
\* expenses of that month of the current year, the grand total adds up all
\* stored expenses, and the response carries the three values as read.  (A
\* write between the reads can therefore leave a total that differs from the
\* sum of the category totals: C18_Witness.)
C18_EachReadIsOneSnapshot ==
    [][/\ (stats.pc = "idle" /\ stats'.pc = "categories") =>
             GroupsBy(stats'.byCategory, StoredExpenses, CategoryOf)
       /\ (stats.pc = "categories" /\ stats'.pc = "months") =>
             /\ stats'.byCategory = stats.byCategory
             /\ \A pair \in Range(stats'.byMonth) :
                   \E docs \in SUBSET {doc \in StoredExpenses :
                                          /\ YearOf(doc.date) = YearOf(now)
                                          /\ MonthOfExpense(doc) = pair._id} :
                      docs # {} /\ pair.total = SumOfAmounts(docs)
       /\ (stats.pc = "months" /\ stats'.pc = "idle") =>
             /\ last'.op = "stats"
             /\ Val(last'.data).total = SumOfAmounts(StoredExpenses)
             /\ Val(last'.data).byCategory = stats.byCategory
             /\ Val(last'.data).byMonth = stats.byMonth]_vars

\* a statistics response whose total is not the sum of its category totals
C18_Witness ==
    /\ StatsAnswered
    /\ ~stats.quiet
    /\ Val(last.data).total # SumOfTotals(Val(last.data).byCategory)

\* the response of the error middleware: the only one with a stack field
Forwarded(r) == r.op # "none" /\ Present(r.stack)

\* C19: a request whose error the handler forwards is answered by the error
\* middleware with status 500 (never 2xx), success false and an error
\* message, and leaves the collection as it was; the stack field is non-null
\* only when the environment is not production.
C19_ForwardedErrorIs500 ==
    [][Forwarded(last') =>
          /\ last'.status = 500
          /\ ~last'.success
          /\ last'.error # ""
          /\ store' = store
          /\ Val(last'.stack) # Null => nodeEnv # "production"]_vars

\* in production, a delete with a malformed id while expenses are stored,
\* answered without a stack
C19_Witness ==
    /\ Forwarded(last)
    /\ last.op = "delete"
    /\ last.error = MsgCastObjectId
    /\ nodeEnv = "production"
    /\ Val(last.stack) = Null
    /\ store # << >>

\* C20: the loading flag of the client is true whenever at least one of
\* getExpenses, getExpenseStats, addExpense, updateExpense, deleteExpense is
\* outstanding, under every interleaving of their completions, the two
\* requests of the initial mount and a getExpenseById completing in the
\* meantime included.
C20_LoadingWhileOutstanding ==
    (\E op \in LoadingOps : client.outstanding[op] > 0) => client.loading

\* C21: a create whose draft is valid in title and amount (and in what else
\* it names) answers 201; when the draft omits category the stored expense
\* has category 'Other', when it omits date the stored expense has the time
\* of the creation as its date.
C21_DefaultsOfCreate ==
    [][(last'.op = "create" /\ ViolatedFields(last'.body, TRUE) = {}) =>
          /\ last'.status = 201
          /\ LET doc == Val(last'.data)
             IN /\ doc._id \in DOMAIN store'
                /\ store'[doc._id] = doc
                /\ ~Present(last'.body.category) => doc.category = "Other"
                /\ ~Present(last'.body.date) => doc.date = now]_vars

\* an expense created from a draft that omits only the date or only the
\* category
C21_Witness ==
    /\ last.op = "create"
    /\ last.status = 201
    /\ \/ ~Present(last.body.date) /\ Present(last.body.category)
       \/ ~Present(last.body.category) /\ Present(last.body.date)
    /\ Val(last.data)._id \in DOMAIN store

GetStats == server.req.method = "GET" /\ server.req.path = StatsPath.text

\* C22: a GET of /api/expenses/stats is handled by the statistics handler,
\* never by the fetch-by-id handler with id 'stats': until another request
\* is dispatched, the statistics request is in progress or has been answered
\* 200 with total, byCategory and byMonth, whatever the collection holds.
C22_StatsRouteBeforeId ==
    GetStats =>
        /\ server.req.handler = "getExpenseStats"
        /\ \/ stats.pc # "idle"
           \/ /\ last.op = "stats"
              /\ last.status = 200
              /\ last.success
              /\ DOMAIN Val(last.data) = {"total", "byCategory", "byMonth"}

\* GET /stats answered while an expense is stored
C22_Witness ==
    /\ GetStats
    /\ last.op = "stats"
    /\ stats.pc = "idle"
    /\ store # << >>
    /\ Val(last.data).total > 0

\* C23: the server listens only after the database connection has
\* succeeded; when the connection fails the process exits with code 1 and
\* never listens, and nothing changes afterwards; no request is dispatched
\* or answered unless the connection has succeeded.
C23_ListenOnlyAfterConnect ==
    /\ [](server.listening => server.db = "connected")
    /\ [](server.db = "failed" =>
             /\ server.exit = Some(1)
             /\ ~server.listening)
    /\ []((server.req # NoRequest \/ last.op # "none" \/ stats.pc # "idle") =>
             server.db = "connected")
    /\ [][server.db = "failed" => UNCHANGED vars]_vars

\* an expense created by a request served after the connection succeeded
C23_Witness ==
    /\ server.db = "connected"
    /\ server.listening
    /\ server.req.handler = "createExpense"
    /\ last.status = 201

\* the response of request r is processed in this step
Delivered(r) ==
    /\ r \in client.inflight
    /\ r.phase = "answered"
    /\ \A r2 \in client'.inflight : r2.n # r.n

\* the ids of a list of expenses
IdsOf(expenses) == {expenses[k]._id : k \in DOMAIN expenses}

\* C24: when the response of addExpense, updateExpense or deleteExpense is
\* processed and the request failed, the list of the provider is unchanged,
\* the promise of the call is rejected and loading is false; when it
\* succeeded, the promise resolves and the list is the list the call saw with
\* the created record in front of it, or with the records of the id replaced
\* where they stand by the updated record, or without the deleted id
C24_MutationOutcome ==
    [][\A r \in client.inflight :
          (r.op \in Mutations /\ Delivered(r)) =>
             LET data == r.response.data
                 expenses == client'.expenses
             IN IF ~r.response.success
                THEN /\ expenses = client.expenses
                     /\ client'.settled = Outcome(r.n, TRUE)
                     /\ ~client'.loading
                ELSE /\ client'.settled = Outcome(r.n, FALSE)
                     /\ r.op = "addExpense" =>
                           /\ expenses # << >>
                           /\ Head(expenses) = Val(data)
                           /\ Tail(expenses) = r.captured
                     /\ r.op = "updateExpense" =>
                           /\ Len(expenses) = Len(r.captured)
                           /\ \A k \in DOMAIN expenses :
                                 expenses[k] = IF r.captured[k]._id = r.id.n
                                               THEN Val(data) ELSE r.captured[k]
                     /\ r.op = "deleteExpense" =>
                           /\ r.id.n \notin IdsOf(expenses)
                           /\ \A k \in DOMAIN r.captured :
                                 r.captured[k]._id # r.id.n =>
                                    r.captured[k] \in Range(expenses)
                           /\ Len(expenses) <= Len(r.captured)]_vars

\* a mutation failed and its response was processed while the list held an
\* expense gained by an earlier addExpense
C24_Witness ==
    /\ client.settled.rejected
    /\ client.expenses # << >>
    /\ client.inflight = {}

\* the mutations in flight that the server has answered with success
Succeeded ==
    {r \in client.inflight :
        r.op \in Mutations /\ r.phase = "answered" /\ r.response.success}

\* the list shows what mutation r did: the created record is in it, the
\* deleted id is not, the records of the updated id are the updated record
Reflects(expenses, r) ==
    CASE r.op = "addExpense" -> Val(r.response.data)._id \in IdsOf(expenses)
      [] r.op = "deleteExpense" -> r.id.n \notin IdsOf(expenses)
      [] r.op = "updateExpense" ->
            \A k \in DOMAIN expenses :
               expenses[k]._id = r.id.n => expenses[k] = Val(r.response.data)

\* C25: when two mutations are outstanding at the same time and both have
\* succeeded, the list the provider holds once both responses are processed,
\* which is the list the later response sets, reflects the earlier one too,
\* whichever of the two is the later one (two updates of one id aside, where
\* the later response decides)
C25_BothMutationsReflected ==
    \A r1 \in Succeeded, r2 \in Succeeded :
       (r1 # r2 /\ ~(r1.op = "updateExpense" /\ r2.op = "updateExpense" /\ r1.id = r2.id))
          => Reflects(SetExpenses(r2, client.expenses), r1)

\* the getExpenses requests in flight that the server has answered with success
Fetched ==
    {r \in client.inflight :
        r.op = "getExpenses" /\ r.phase = "answered" /\ r.response.success}

\* C26: when getExpenses is called with one set of filters and again with
\* another before the first response arrives, and both requests are answered,
\* the list the provider holds once both responses are processed is the
\* result for the filters requested last, also when the response of the
\* earlier call is the one processed last
C26_LatestFiltersWin ==
    \A r1 \in Fetched, r2 \in Fetched :
       (r1.n < r2.n /\ r1.q # r2.q)
          => SetExpenses(r1, client.expenses) = Val(r2.response.data).data

\* the getExpenseStats requests sent in this step
StatsSent ==
    {r \in client'.inflight :
        r.op = "getExpenseStats" /\ \A r2 \in client.inflight : r2.n # r.n}

\* the first half of C28: once the provider is mounted, getExpenseStats is
\* requested only in the step that processes the successful response of a
\* deleteExpense called by Dashboard.handleDelete, and that step requests it
C28_RefetchOnlyAfterSuccess ==
    [][/\ (client.mounted /\ StatsSent # {}) =>
             \E r \in client.inflight :
                /\ Delivered(r)
                /\ r.op = "deleteExpense" /\ r.refetch /\ r.response.success
                /\ \A st \in StatsSent : st.id = r.id
       /\ \A r \in client.inflight :
             (Delivered(r) /\ r.op = "deleteExpense" /\ r.refetch) =>
                (StatsSent # {} <=> r.response.success)]_vars

\* C28: after a delete on the Dashboard has succeeded and the statistics
\* request that follows it has been answered and processed, the statistics
\* shown are not computed from the deleted expense
C28_StatsWithoutDeleted ==
    \A n \in client.refetched : n \notin client.statsOf

\* request n has been sent and its call has not completed
InFlight(n) == \E r \in client.inflight : r.n = n

\* the call of request n has completed: its finally block has run
Completed(n) == n <= client.issued /\ ~InFlight(n)

\* C27: when every request settles, every call of the provider completes;
\* once the provider is mounted and no call is outstanding, loading is false;
\* loading never stays true for ever, also when requests fail
C27_CallsComplete ==
    /\ \A n \in 1..MaxRequests : InFlight(n) ~> Completed(n)
    /\ [](client.mounted /\ client.inflight = {} => ~client.loading)
    /\ client.loading ~> ~client.loading

\* a call whose request failed has completed, none is outstanding and
\* loading is false
C27_Witness ==
    /\ client.settled.rejected
    /\ client.inflight = {}
    /\ ~client.loading
    /\ client.calls = MaxLiveCalls

\* C29: whenever the ExpenseList holds expenses, its current page is one of
\* the pages 1..totalPages, and the page it displays holds at least one
\* expense
C29_PageInRange ==
    client.expenses # << >> =>
       /\ client.currentPage \in 1..TotalPages(client.expenses)
       /\ CurrentExpenses(client.expenses, client.currentPage) # << >>

\* the request body meets the constraints of the schema on title, amount,
\* category and description
MeetsSchema(body) ==
    /\ Present(body.title)
    /\ Trim(Val(body.title)).len \in 1..TitleMaxLen
    /\ Present(body.amount)
    /\ Val(body.amount) >= AmountMin
    /\ Present(body.category)
    /\ Val(body.category) \in Categories
    /\ Present(body.description) => Trim(Val(body.description)).len <= DescriptionMaxLen

\* C30: a form that does not pass validateForm sends nothing; a form that
\* passes sends its fields with the amount as a number, the draft sent meets
\* the constraints of the schema, and the server does not answer it with 400
C30_FormDraftsAccepted ==
    [][/\ client'.form.errors # {} => UNCHANGED <<store, last>>
       /\ last' # last =>
             /\ client'.form.errors = {}
             /\ last'.body = ProcessedData(client'.form.data)
             /\ Val(last'.body.amount) = client'.form.data.amount.value
             /\ MeetsSchema(last'.body)
             /\ ValidationMessages(ApplySetters(last'.body), TRUE) = {}
             /\ last'.status # 400]_vars

\* a draft whose title fills the limit exactly and whose description is
\* empty has been sent by ExpenseForm and stored
C30_Witness ==
    /\ last.op = "create"
    /\ last.status = 201
    /\ client.form.errors = {}
    /\ RawLength(client.form.data.title) = TitleMaxLen
    /\ client.form.data.amount.kind = "text"

====
